---------------------------- MODULE Spec2Model ----------------------------
(***************************************************************************)
(* Boundary-representation tessellation of truck-meshalgo                  *)
(* (tessellation/triangulation.rs) and the curve-on-surface inversion of   *)
(* truck-geometry (decorators/curve_on_surface.rs).                        *)
(*                                                                         *)
(* Numbers are integers: parameter values (u, v) and coordinates live on   *)
(* an integer grid, so every comparison of the source (<, <=, abs) is      *)
(* exact.  Option<T> is a sequence: <<>> is None and <<x>> is Some(x).     *)
(* Vec indices are the source's 0-based indices; Vec v of the source is    *)
(* the sequence v with v[i+1] holding element i.                           *)
(***************************************************************************)
EXTENDS Integers, Sequences, FiniteSets, TLC

None == <<>>
Some(x) == <<x>>
IsSome(o) == o # <<>>
Unwrapped(o) == o[1]

Abs(x) == IF x < 0 THEN 0 - x ELSE x

\* Vec element i (0-based)
At(v, i) == v[i + 1]

Reverse(s) == [i \in 1..Len(s) |-> s[Len(s) + 1 - i]]

RECURSIVE SumSeq(_)
SumSeq(s) == IF s = <<>> THEN 0 ELSE Head(s) + SumSeq(Tail(s))

RECURSIVE Concat(_)
Concat(ss) == IF ss = <<>> THEN <<>> ELSE Head(ss) \o Concat(Tail(ss))

Range(s) == {s[i] : i \in 1..Len(s)}

\* let v = x; F(v): x is evaluated once, and F works on its value
Let(x, F(_)) == CHOOSE r \in {F(v) : v \in {x}} : TRUE

(***************************************************************************)
(* Bounds of the model.                                                    *)
(***************************************************************************)
\* add_wire calls made on one Polyline in the Polyline specification
MaxWires == 2
\* largest number of points the inverter is made to fail on
MaxFail == 1

(***************************************************************************)
(* Surfaces.  A surface is a record [up, vp] of its optional periods; its  *)
(* map is S(u, v) = (u mod up, v mod vp), the plane rolled up along every  *)
(* periodic direction, so a 3D point is the pair of its base parameters.   *)
(***************************************************************************)
Period == 8

Plane == [up |-> None, vp |-> None]
Cylinder == [up |-> Some(Period), vp |-> None]
Torus == [up |-> Some(Period), vp |-> Some(Period)]
Surfaces == {Plane, Cylinder, Torus}

u_period(surface) == surface.up
v_period(surface) == surface.vp

WrapTo(x, p) == IF IsSome(p) THEN x % Unwrapped(p) ELSE x

\* surface.subs(u, v)
SurfaceSubs(surface, u, v) == <<WrapTo(u, surface.up), WrapTo(v, surface.vp)>>

VARIABLES
    spFail,      \* points no parameter search inverts
    spFailHint,  \* points the search fails on when started from a hint
    spNear,      \* whether a hinted search returns the preimage nearest the hint
    surface,     \* the surface of the Polyline under construction
    polyline,    \* Polyline { positions, indices }
    calls,       \* add_wire calls made so far on polyline
    last,        \* record of the latest add_wire call
    hashSeed,    \* the seed of HashGen::hash1
    polygon,     \* the vertices of the polygon the Polyline was built from
    incl,        \* record of the latest Polyline::include call
    cdtReject,   \* parameter points the triangulation refuses to insert
    shell,       \* the input shell, in compressed form
    phase,       \* which tessellation function is running
    single,      \* shell_tessellation_single_thread: maps, position, output
    par,         \* shell_tessellation: maps, finished faces
    cshell,      \* cshell_tessellation: tessellated edges, finished faces
    pcurve,      \* the 2D curve of a PCurve, as the sequence of its points
    search,      \* record of the latest PCurve::search_parameter call
    triangulation \* record of the latest Polyline::insert_to call

ivars == <<spFail, spFailHint, spNear, cdtReject, hashSeed>>
pvars == <<surface, polyline, calls, last, polygon, incl>>
svars == <<shell, phase, single, par>>
cvars == <<cshell, pcurve, search, triangulation>>
vars == <<ivars, pvars, svars, cvars>>

(***************************************************************************)
(* The parameter inverter.                                                 *)
(***************************************************************************)
\* the preimage of coordinate x on a periodic direction that is nearest h
NearestBranch(x, p, h) ==
    IF ~IsSome(p) THEN x
    ELSE LET P == Unwrapped(p)
             c == {x - P, x, x + P}
             best == CHOOSE b \in c : \A o \in c :
                        Abs(b - h) < Abs(o - h) \/ (Abs(b - h) = Abs(o - h) /\ b <= o)
         IN best

\* the inverter's behaviour: where it fails, and how it follows a hint
Inverter == [fail |-> spFail, failHint |-> spFailHint, near |-> spNear]

\* surface.search_parameter(point, hint, trials): a Newton search that
\* returns a true preimage of point or None
SurfaceSearchParameter(inv, s, point, hint) ==
    IF SurfaceSubs(s, point[1], point[2]) # point THEN None
    ELSE IF point \in inv.fail THEN None
    ELSE IF IsSome(hint) /\ point \in inv.failHint THEN None
    ELSE IF IsSome(hint) /\ inv.near
         THEN Some(<<NearestBranch(point[1], s.up, Unwrapped(hint)[1]),
                     NearestBranch(point[2], s.vp, Unwrapped(hint)[2])>>)
         ELSE Some(point)

by_search_parameter(inv, s, point, hint) ==
    LET first == SurfaceSearchParameter(inv, s, point, hint)
    IN IF IsSome(first) THEN first ELSE SurfaceSearchParameter(inv, s, point, None)

\* the inverter handed to the tessellation functions
sp(inv, s, point, hint) == by_search_parameter(inv, s, point, hint)

(***************************************************************************)
(* Polyline::add_wire                                                      *)
(***************************************************************************)
EmptyPolyline == [positions |-> <<>>, indices |-> <<>>]

\* a match whose first two arms have their results exchanged
PeriodicMatchSwapped(h, p, prev) ==
    LET d0 == Abs(h - prev)
        d1 == Abs(h - p - prev)
        d2 == Abs(h + p - prev)
    IN  IF ~(d0 < d1) /\ (d1 < d2) THEN Some(h + p)
        ELSE IF ~(d1 < d2) /\ (d2 < d0) THEN Some(h - p)
        ELSE Some(h)

\* the match on (d0 < d1, d1 < d2, d2 < d0); "unreachable" for its last arm
PeriodicMatch(h, p, prev) ==
    LET d0 == Abs(h - prev)
        d1 == Abs(h - p - prev)
        d2 == Abs(h + p - prev)
    IN  IF ~(d0 < d1) /\ (d1 < d2) THEN Some(h - p)
        ELSE IF ~(d1 < d2) /\ (d2 < d0) THEN Some(h + p)
        ELSE IF (d0 < d1) /\ ~(d2 < d0) THEN Some(h)
        ELSE IF ~(d0 < d1) /\ ~(d1 < d2) /\ ~(d2 < d0) THEN Some(h)
        ELSE None

\* one coordinate of the hint after the `if let` of lines 253-266 / 267-280
Unwrap(h, p, previous, k) ==
    IF IsSome(p) /\ IsSome(previous)
    THEN PeriodicMatch(h, Unwrapped(p), Unwrapped(previous)[k])
    ELSE Some(h)

\* the inner closure of add_wire on point pt: st is the closure's captured
\* state [positions, counter, previous, hint, log, res, unreachable]
AddPoint(inv, st, s, pt) ==
    LET ret == sp(inv, s, pt, st.hint)
        nu == IF IsSome(ret) THEN Unwrap(Unwrapped(ret)[1], u_period(s), st.previous, 1)
              ELSE None
        nv == IF IsSome(ret) THEN Unwrap(Unwrapped(ret)[2], v_period(s), st.previous, 2)
              ELSE None
        entry == [pt |-> pt, hint |-> st.hint, ret |-> ret]
    IN  IF ~IsSome(ret)
        THEN [st EXCEPT !.hint = None, !.previous = None, !.res = FALSE,
                        !.log = Append(@, entry)]
        ELSE IF ~IsSome(nu) \/ ~IsSome(nv)
        THEN [st EXCEPT !.res = FALSE, !.unreachable = TRUE,
                        !.log = Append(@, entry)]
        ELSE LET h == <<Unwrapped(nu), Unwrapped(nv)>>
             IN [st EXCEPT !.hint = Some(h), !.previous = Some(h),
                           !.positions = Append(@, h),
                           !.log = Append(@, entry)]

\* Vec::from(poly_edge).into_iter().all(..) from point i (1-based) on
RECURSIVE AddEdgePoints(_, _, _, _, _)
AddEdgePoints(inv, st, s, pts, i) ==
    IF i > Len(pts) \/ ~st.res THEN st
    ELSE Let(AddPoint(inv, st, s, pts[i]),
             LAMBDA next : AddEdgePoints(inv, next, s, pts, i + 1))

\* PolylineCurve::pop
Pop(poly_edge) == IF poly_edge = <<>> THEN <<>> ELSE SubSeq(poly_edge, 1, Len(poly_edge) - 1)

\* an outer closure that carries the hint over from the preceding edge
AddEdgeKeepHint(inv, st, s, poly_edge) ==
    Let(Pop(poly_edge), LAMBDA popped :
        Let([st EXCEPT !.counter = @ + Len(popped)],
            LAMBDA st1 : AddEdgePoints(inv, st1, s, popped, 1)))

\* the outer closure of add_wire on one edge polyline
AddEdge(inv, st, s, poly_edge) ==
    Let(Pop(poly_edge), LAMBDA popped :
        Let([st EXCEPT !.counter = @ + Len(popped), !.hint = None],
            LAMBDA st1 : AddEdgePoints(inv, st1, s, popped, 1)))

\* wire.all(..) from edge k (1-based) on
RECURSIVE AddWireEdges(_, _, _, _, _)
AddWireEdges(inv, st, s, wire, k) ==
    IF k > Len(wire) \/ ~st.res THEN st
    ELSE Let(AddEdge(inv, st, s, wire[k]),
             LAMBDA next : AddWireEdges(inv, next, s, wire, k + 1))

\* segments that count from the start of positions, not from len
WireSegmentsFromZero(len, counter) ==
    [j \in 1..counter |-> <<j - 1, j % counter>>]

\* the segments (0..counter).map(|i| [len + i, len + (i + 1) % counter])
WireSegments(len, counter) ==
    [j \in 1..counter |-> <<len + (j - 1), len + (j % counter)>>]

\* add_wire: the Polyline after the call, the returned bool, and what the
\* call did (the inverter calls in order, the counter, the unreachable arm)
AddWireWith(inv, poly, s, wire) ==
    LET len == Len(poly.positions)
        st0 == [positions |-> poly.positions, counter |-> 0, previous |-> None,
                hint |-> None, log |-> <<>>, res |-> TRUE, unreachable |-> FALSE]
    IN Let(AddWireEdges(inv, st0, s, wire, 1), LAMBDA st :
           [polyline |-> [positions |-> st.positions,
                          indices |-> poly.indices \o WireSegments(len, st.counter)],
            res |-> st.res,
            counter |-> st.counter,
            log |-> st.log,
            unreachable |-> st.unreachable])

AddWire(poly, s, wire) == AddWireWith(Inverter, poly, s, wire)

(***************************************************************************)
(* Polyline::include.  The query point is the rational c / k, so that a    *)
(* centroid stays on the grid: a and b are scaled by k, which changes no   *)
(* sign below.  The ray direction is an integer vector along               *)
(* (cos t, sin t); scaling it changes no sign either.  Coordinates are     *)
(* grid values far above the tolerance of so_small, so x.so_small() is     *)
(* x = 0, that is s2 = 0 with s1 # s0 (x is infinite or NaN when           *)
(* s1 = s0, which no branch accepts).                                      *)
(***************************************************************************)
\* sixteenths of a turn, as integer vectors
Directions == << <<1,0>>, <<2,1>>, <<1,1>>, <<1,2>>, <<0,1>>, <<-1,2>>, <<-1,1>>,
                 <<-2,1>>, <<-1,0>>, <<-2,-1>>, <<-1,-1>>, <<-1,-2>>, <<0,-1>>,
                 <<1,-2>>, <<1,-1>>, <<2,-1>> >>

\* HashGen::hash1(c), in sixteenths: a pure function of c
Hash1(c, k) == (7 * c[1] + 13 * c[2] + 5 * k + hashSeed) % Len(Directions)

\* r = (cos t, sin t) for t = 2 pi hash1(c)
RayDirection(c, k) == Directions[Hash1(c, k) + 1]

Cross(a, b) == a[1] * b[2] - a[2] * b[1]
Minus(a, b) == <<a[1] - b[1], a[2] - b[2]>>

\* a closure without the on-edge arm
IncludeStepNoEdge(counter, poly, edge, c, k, r) ==
    LET pa == At(poly.positions, edge[1])
        pb == At(poly.positions, edge[2])
        a == <<k * pa[1] - c[1], k * pa[2] - c[2]>>
        b == <<k * pb[1] - c[1], k * pb[2] - c[2]>>
        s0 == Cross(r, a)
        s1 == Cross(r, b)
        s2 == Cross(a, b)
        xpos == (s1 - s0 > 0 /\ s2 > 0) \/ (s1 - s0 < 0 /\ s2 < 0)
                   \/ (s1 = s0 /\ s2 > 0)
    IN  IF xpos /\ s0 <= 0 /\ s1 > 0 THEN Some(counter + 1)
        ELSE IF xpos /\ s0 >= 0 /\ s1 < 0 THEN Some(counter - 1)
        ELSE Some(counter)

\* the closure of try_fold on one segment: None, or Some(counter)
IncludeStep(counter, poly, edge, c, k, r) ==
    LET pa == At(poly.positions, edge[1])
        pb == At(poly.positions, edge[2])
        a == <<k * pa[1] - c[1], k * pa[2] - c[2]>>
        b == <<k * pb[1] - c[1], k * pb[2] - c[2]>>
        s0 == Cross(r, a)
        s1 == Cross(r, b)
        s2 == Cross(a, b)
        xdef == s1 # s0
        xzero == xdef /\ s2 = 0
        xpos == (s1 - s0 > 0 /\ s2 > 0) \/ (s1 - s0 < 0 /\ s2 < 0)
                   \/ (s1 = s0 /\ s2 > 0)
    IN  IF xzero /\ s0 * s1 < 0 THEN None
        ELSE IF xpos /\ s0 <= 0 /\ s1 > 0 THEN Some(counter + 1)
        ELSE IF xpos /\ s0 >= 0 /\ s1 < 0 THEN Some(counter - 1)
        ELSE Some(counter)

\* try_fold(0, ..) over indices from segment i (1-based) on
RECURSIVE IncludeFold(_, _, _, _, _, _)
IncludeFold(acc, poly, i, c, k, r) ==
    IF ~IsSome(acc) \/ i > Len(poly.indices) THEN acc
    ELSE Let(IncludeStep(Unwrapped(acc), poly, poly.indices[i], c, k, r),
             LAMBDA next : IncludeFold(next, poly, i + 1, c, k, r))

\* a verdict that accepts any non-zero counter
IncludeNonZero(acc) == IF IsSome(acc) THEN Unwrapped(acc) # 0 ELSE FALSE

\* .map(|counter| counter > 0).unwrap_or(false)
IncludeVerdict(acc) == IF IsSome(acc) THEN Unwrapped(acc) > 0 ELSE FALSE

IncludeWith(poly, c, k, r) == IncludeVerdict(IncludeFold(Some(0), poly, 1, c, k, r))

\* polyline.include(c / k)
Include(poly, c, k) == IncludeWith(poly, c, k, RayDirection(c, k))

(***************************************************************************)
(* The constrained Delaunay triangulation (spade) as the tessellator uses  *)
(* it: a Cdt is [verts, constraints]; the handle of the i-th vertex        *)
(* inserted is Handle(i).  insert refuses the points of cdtReject (spade   *)
(* answers Err for a coordinate it cannot store) and answers the handle    *)
(* already given for a point it holds.                                     *)
(***************************************************************************)
Handle(i) == <<"vertex", i>>
HandleIndex(h) == h[2]

CdtNew == [verts |-> <<>>, constraints |-> <<>>]

IndexOf(seq, x) == CHOOSE i \in 1..Len(seq) : seq[i] = x

\* triangulation.insert(pt): [cdt, handle], handle None for Err
CdtInsert(cdt, pt) ==
    IF pt \in cdtReject THEN [cdt |-> cdt, handle |-> None]
    ELSE IF pt \in Range(cdt.verts)
         THEN [cdt |-> cdt, handle |-> Some(Handle(IndexOf(cdt.verts, pt) - 1))]
         ELSE [cdt |-> [cdt EXCEPT !.verts = Append(@, pt)],
               handle |-> Some(Handle(Len(cdt.verts)))]

CdtPoint(cdt, h) == At(cdt.verts, HandleIndex(h))

Sign(x) == IF x > 0 THEN 1 ELSE IF x < 0 THEN -1 ELSE 0
Orient(p, q, r) == Sign(Cross(Minus(q, p), Minus(r, p)))

\* the open segments p-q and r-t cross
SegmentsCross(p, q, r, t) ==
    /\ Orient(p, q, r) * Orient(p, q, t) < 0
    /\ Orient(r, t, p) * Orient(r, t, q) < 0

\* triangulation.can_add_constraint(from, to)
CdtCanAddConstraint(cdt, from, to) ==
    \A i \in 1..Len(cdt.constraints) :
        ~SegmentsCross(CdtPoint(cdt, from), CdtPoint(cdt, to),
                       CdtPoint(cdt, cdt.constraints[i][1]),
                       CdtPoint(cdt, cdt.constraints[i][2]))

\* triangulation.add_constraint(from, to)
CdtAddConstraint(cdt, from, to) ==
    [cdt EXCEPT !.constraints = Append(@, <<from, to>>)]

\* triangulation.vertices(): the handles in insertion order
CdtVertices(cdt) == [i \in 1..Len(cdt.verts) |-> Handle(i - 1)]

\* triangulation.inner_faces(): a fan of triangles over the vertices, in an
\* iteration order the triangulation chooses (rev)
CdtInnerFaces(cdt, rev) ==
    LET n == Len(cdt.verts)
        fan == [i \in 1..(IF n >= 3 THEN n - 2 ELSE 0) |->
                   <<Handle(0), Handle(i), Handle(i + 1)>>]
        proper == SelectSeq(fan, LAMBDA t :
                     Orient(CdtPoint(cdt, t[1]), CdtPoint(cdt, t[2]),
                            CdtPoint(cdt, t[3])) # 0)
    IN IF rev THEN Reverse(proper) ELSE proper

(***************************************************************************)
(* Polyline::insert_to                                                     *)
(***************************************************************************)
\* positions.iter().filter_map(|pt| triangulation.insert(pt).ok()).collect():
\* st is [cdt, poly2tri]
RECURSIVE InsertBoundary(_, _, _)
InsertBoundary(st, positions, i) ==
    IF i > Len(positions) THEN st
    ELSE Let(CdtInsert(st.cdt, positions[i]), LAMBDA r :
             Let([cdt |-> r.cdt,
                  poly2tri |-> IF IsSome(r.handle)
                               THEN Append(st.poly2tri, Unwrapped(r.handle))
                               ELSE st.poly2tri],
                 LAMBDA next : InsertBoundary(next, positions, i + 1)))

InRange(v, i) == i >= 0 /\ i < Len(v)

\* a closure that, with a vertex pending, still attempts the segment itself
ConstraintStepNoSkip(st, poly2tri, a) ==
    LET from == a[1]
        to == a[2]
    IN  IF ~InRange(poly2tri, from) \/ ~InRange(poly2tri, to)
        THEN [st EXCEPT !.panicked = TRUE]
        ELSE LET hf == At(poly2tri, from)
                 ht == At(poly2tri, to)
                 legal == CdtCanAddConstraint(st.cdt, hf, ht)
                 entry == [segment |-> a, pending |-> st.prev, from |-> from, to |-> to,
                           hfrom |-> hf, hto |-> ht, legal |-> legal]
             IN  IF legal
                 THEN [st EXCEPT !.cdt = CdtAddConstraint(@, hf, ht), !.prev = None,
                                 !.log = Append(@, entry)]
                 ELSE [st EXCEPT !.prev = Some(a[1]), !.log = Append(@, entry)]

\* the closure of indices.iter().for_each on segment a: st is
\* [cdt, prev, panicked, log]; an out-of-range poly2tri[..] panics
ConstraintStep(st, poly2tri, a) ==
    LET from == IF IsSome(st.prev) THEN Unwrapped(st.prev) ELSE a[1]
        to == a[2]
    IN  IF ~InRange(poly2tri, from) \/ ~InRange(poly2tri, to)
        THEN [st EXCEPT !.panicked = TRUE]
        ELSE LET hf == At(poly2tri, from)
                 ht == At(poly2tri, to)
                 legal == CdtCanAddConstraint(st.cdt, hf, ht)
                 entry == [segment |-> a, pending |-> st.prev, from |-> from, to |-> to,
                           hfrom |-> hf, hto |-> ht, legal |-> legal]
             IN  IF legal
                 THEN [st EXCEPT !.cdt = CdtAddConstraint(@, hf, ht), !.prev = None,
                                 !.log = Append(@, entry)]
                 ELSE IF IsSome(st.prev)
                      THEN [st EXCEPT !.log = Append(@, entry)]
                      ELSE [st EXCEPT !.prev = Some(a[1]), !.log = Append(@, entry)]

RECURSIVE ConstraintFold(_, _, _, _)
ConstraintFold(st, poly2tri, indices, i) ==
    IF i > Len(indices) \/ st.panicked THEN st
    ELSE Let(ConstraintStep(st, poly2tri, indices[i]),
             LAMBDA next : ConstraintFold(next, poly2tri, indices, i + 1))

\* polyline.insert_to(&mut triangulation): [cdt, poly2tri, prev, panicked, log]
InsertTo(poly, cdt) ==
    Let(InsertBoundary([cdt |-> cdt, poly2tri |-> <<>>], poly.positions, 1), LAMBDA b :
        Let(ConstraintFold([cdt |-> b.cdt, prev |-> None, panicked |-> FALSE,
                            log |-> <<>>], b.poly2tri, poly.indices, 1), LAMBDA c :
            [cdt |-> c.cdt, poly2tri |-> b.poly2tri, prev |-> c.prev,
             panicked |-> c.panicked, log |-> c.log]))

(***************************************************************************)
(* insert_surface, triangulation_into_polymesh, trimming_tessellation      *)
(***************************************************************************)
SetMin(S) == CHOOSE x \in S : \A y \in S : x <= y
SetMax(S) == CHOOSE x \in S : \A y \in S : x >= y

\* surface.parameter_division(range, tol): the divisions of a parameter
\* range in steps of tol, both ends included
Division(lo, hi, tol) ==
    LET n == (hi - lo) \div tol
        inner == [i \in 1..(n + 1) |-> lo + (i - 1) * tol]
    IN IF inner[Len(inner)] = hi THEN inner ELSE Append(inner, hi)

\* udiv x vdiv, u-major
RECURSIVE ProductSeq(_, _)
ProductSeq(udiv, vdiv) ==
    IF udiv = <<>> THEN <<>>
    ELSE [j \in 1..Len(vdiv) |-> <<Head(udiv), vdiv[j]>>] \o ProductSeq(Tail(udiv), vdiv)

RECURSIVE InsertAll(_, _)
InsertAll(cdt, pts) ==
    IF pts = <<>> THEN cdt
    ELSE Let(CdtInsert(cdt, Head(pts)).cdt, LAMBDA next : InsertAll(next, Tail(pts)))

insert_surface(cdt, s, poly, tol) ==
    IF poly.positions = <<>> THEN cdt
    ELSE LET us == {poly.positions[i][1] : i \in 1..Len(poly.positions)}
             vs == {poly.positions[i][2] : i \in 1..Len(poly.positions)}
             udiv == Division(SetMin(us), SetMax(us), tol)
             vdiv == Division(SetMin(vs), SetMax(vs), tol)
             kept == SelectSeq(ProductSeq(udiv, vdiv), LAMBDA pt : Include(poly, pt, 1))
         IN Let(kept, LAMBDA pts : InsertAll(cdt, pts))

\* surface.normal(u, v)
SurfaceNormal(s, u, v) == <<0, 0, 1>>

\* vertices.enumerate(): handle -> index into the attribute arrays
EnumerateIndex(i) == i

VertexMap(vertices) == [h \in Range(vertices) |-> EnumerateIndex(IndexOf(vertices, h) - 1)]

\* a vertex record whose normal index is always the first normal
VertexOfFirstNormal(i) == [pos |-> i, uv |-> Some(i), nor |-> Some(0)]

\* [idcs[k], idcs[k], idcs[k]].into()
StandardVertex(i) == [pos |-> i, uv |-> Some(i), nor |-> Some(i)]

\* the centroid of a triangle, as the rational c / 3
TriangleCentroid3(cdt, tri) ==
    <<CdtPoint(cdt, tri[1])[1] + CdtPoint(cdt, tri[2])[1] + CdtPoint(cdt, tri[3])[1],
      CdtPoint(cdt, tri[1])[2] + CdtPoint(cdt, tri[2])[2] + CdtPoint(cdt, tri[3])[2]>>

triangulation_into_polymesh(cdt, rev, s, poly) ==
    LET vertices == CdtVertices(cdt)
    IN Let([i \in 1..Len(vertices) |-> CdtPoint(cdt, vertices[i])], LAMBDA uvs :
       Let(VertexMap(vertices), LAMBDA vmap :
       Let(SelectSeq(CdtInnerFaces(cdt, rev),
                     LAMBDA tri : Include(poly, TriangleCentroid3(cdt, tri), 3)),
           LAMBDA kept :
       [positions |-> [i \in 1..Len(uvs) |-> SurfaceSubs(s, uvs[i][1], uvs[i][2])],
        uv_coords |-> uvs,
        normals |-> [i \in 1..Len(uvs) |-> SurfaceNormal(s, uvs[i][1], uvs[i][2])],
        tri_faces |-> [j \in 1..Len(kept) |->
                         [m \in 1..3 |-> StandardVertex(vmap[kept[j][m]])]]])))

\* mesh.make_face_compatible_to_normal(): a triangle whose geometric normal
\* opposes its vertex normals is flipped
make_face_compatible_to_normal(mesh) ==
    [mesh EXCEPT !.tri_faces =
        [j \in 1..Len(@) |->
            LET t == @[j]
                o == Orient(At(mesh.uv_coords, t[1].pos), At(mesh.uv_coords, t[2].pos),
                            At(mesh.uv_coords, t[3].pos))
            IN IF o < 0 THEN <<t[1], t[3], t[2]>> ELSE t]]

\* trimming_tessellation: [mesh, panicked, inserted]; a panic of insert_to
\* unwinds through it
trimming_tessellation(s, poly, tol, rev) ==
    Let(InsertTo(poly, CdtNew), LAMBDA ins :
        IF ins.panicked THEN [mesh |-> None, panicked |-> TRUE, inserted |-> ins]
        ELSE Let(insert_surface(ins.cdt, s, poly, tol), LAMBDA cdt :
             Let(triangulation_into_polymesh(cdt, rev, s, poly), LAMBDA mesh :
                 [mesh |-> Some(make_face_compatible_to_normal(mesh)),
                  panicked |-> FALSE, inserted |-> ins])))

(***************************************************************************)
(* Topology.  The input is given in compressed form: vertices (points),    *)
(* edges [vertices |-> <<i, j>>, curve], faces [boundaries, orientation,   *)
(* surface] with boundaries of EdgeRef [index, orientation].  The Shell    *)
(* over it has one Vertex per vertex index and one Edge per edge index,    *)
(* the index being the identity.  A curve is the sequence of its samples.  *)
(***************************************************************************)
Tol == 2

\* PolylineCurve::from_curve(curve, curve.parameter_range(), tol): both end
\* points and every tol-th sample between them
from_curve(curve, tol) ==
    LET n == Len(curve)
        picks == {i \in 1..n : i = n \/ (i - 1) % tol = 0}
        k == Cardinality(picks)
        nth[j \in 1..k] == IF j = 1 THEN SetMin(picks)
                          ELSE SetMin({i \in picks : i > nth[j - 1]})
    IN [j \in 1..k |-> curve[nth[j]]]

EdgeRef(index, orientation) == [index |-> index, orientation |-> orientation]
Fwd(index) == EdgeRef(index, TRUE)
Bwd(index) == EdgeRef(index, FALSE)
CEdge(i, j, curve) == [vertices |-> <<i, j>>, curve |-> curve]

TwoSquares ==
    [vertices |-> << <<0,0>>, <<4,0>>, <<8,0>>, <<8,4>>, <<4,4>>, <<0,4>> >>,
     edges |-> << CEdge(0, 1, << <<0,0>>, <<1,0>>, <<2,0>>, <<3,0>>, <<4,0>> >>),
                  CEdge(1, 4, << <<4,0>>, <<4,4>> >>),
                  CEdge(4, 5, << <<4,4>>, <<0,4>> >>),
                  CEdge(5, 0, << <<0,4>>, <<0,0>> >>),
                  CEdge(1, 2, << <<4,0>>, <<8,0>> >>),
                  CEdge(2, 3, << <<8,0>>, <<8,4>> >>),
                  CEdge(3, 4, << <<8,4>>, <<4,4>> >>) >>,
     faces |-> << [boundaries |-> << <<Fwd(4), Fwd(5), Fwd(6), Bwd(1)>> >>,
                   orientation |-> FALSE, surface |-> Plane],
                  [boundaries |-> << <<Fwd(0), Fwd(1), Fwd(2), Fwd(3)>> >>,
                   orientation |-> TRUE, surface |-> Plane] >>]

HoledSquare ==
    [vertices |-> << <<0,0>>, <<6,0>>, <<6,6>>, <<0,6>>,
                     <<2,2>>, <<4,2>>, <<4,4>>, <<2,4>> >>,
     edges |-> << CEdge(0, 1, << <<0,0>>, <<6,0>> >>),
                  CEdge(1, 2, << <<6,0>>, <<6,6>> >>),
                  CEdge(2, 3, << <<6,6>>, <<0,6>> >>),
                  CEdge(3, 0, << <<0,6>>, <<0,0>> >>),
                  CEdge(4, 5, << <<2,2>>, <<4,2>> >>),
                  CEdge(5, 6, << <<4,2>>, <<4,4>> >>),
                  CEdge(6, 7, << <<4,4>>, <<2,4>> >>),
                  CEdge(7, 4, << <<2,4>>, <<2,2>> >>) >>,
     faces |-> << [boundaries |-> << <<Fwd(0), Fwd(1), Fwd(2), Fwd(3)>>,
                                     <<Bwd(7), Bwd(6), Bwd(5), Bwd(4)>> >>,
                   orientation |-> TRUE, surface |-> Plane],
                  [boundaries |-> << <<Fwd(4), Fwd(5), Fwd(6), Fwd(7)>> >>,
                   orientation |-> FALSE, surface |-> Plane] >>]

SeamBand ==
    [vertices |-> << <<6,0>>, <<1,0>>, <<1,2>>, <<6,2>> >>,
     edges |-> << CEdge(0, 1, << <<6,0>>, <<7,0>>, <<0,0>>, <<1,0>> >>),
                  CEdge(1, 2, << <<1,0>>, <<1,2>> >>),
                  CEdge(2, 3, << <<1,2>>, <<0,2>>, <<7,2>>, <<6,2>> >>),
                  CEdge(3, 0, << <<6,2>>, <<6,0>> >>) >>,
     faces |-> << [boundaries |-> << <<Fwd(0), Fwd(1), Fwd(2), Fwd(3)>> >>,
                   orientation |-> TRUE, surface |-> Cylinder],
                  [boundaries |-> << <<Bwd(3), Bwd(2), Bwd(1), Bwd(0)>> >>,
                   orientation |-> FALSE, surface |-> Cylinder] >>]

\* a face without boundaries
BareFace ==
    [vertices |-> << >>, edges |-> << >>,
     faces |-> << [boundaries |-> << >>, orientation |-> FALSE, surface |-> Plane] >>]

SampleShells == {TwoSquares, HoledSquare, SeamBand, BareFace}

(***************************************************************************)
(* Vertex, Edge, Wire, Face of truck-topology, as far as the tessellation  *)
(* uses them.  A Vertex is [id, point]; an Edge is [id, orientation, v0,   *)
(* v1, curve] with v0 and v1 its absolute front and back; a Wire is a      *)
(* sequence of Edges; a Face is [boundaries, orientation, surface] with    *)
(* its boundaries stored absolute.                                         *)
(***************************************************************************)
InputId(kind, i) == <<"in", kind, i>>

ShellVertex(sh, i) == [id |-> InputId("v", i), point |-> At(sh.vertices, i)]

ShellEdge(sh, ref) ==
    LET e == At(sh.edges, ref.index)
    IN [id |-> InputId("e", ref.index), orientation |-> ref.orientation,
        v0 |-> ShellVertex(sh, e.vertices[1]), v1 |-> ShellVertex(sh, e.vertices[2]),
        curve |-> e.curve]

ShellFace(sh, f) ==
    LET cf == sh.faces[f]
    IN [boundaries |-> [w \in 1..Len(cf.boundaries) |->
                          [e \in 1..Len(cf.boundaries[w]) |->
                              ShellEdge(sh, cf.boundaries[w][e])]],
        orientation |-> cf.orientation,
        surface |-> cf.surface]

absolute_front(edge) == edge.v0
absolute_back(edge) == edge.v1
front(edge) == IF edge.orientation THEN edge.v0 ELSE edge.v1
back(edge) == IF edge.orientation THEN edge.v1 ELSE edge.v0
curve(edge) == edge.curve
\* PolylineCurve::inverse
PolylineInverse(poly) == Reverse(poly)
oriented_curve(edge) == IF edge.orientation THEN edge.curve ELSE PolylineInverse(edge.curve)
inverse(edge) == [edge EXCEPT !.orientation = ~@]
absolute_boundaries(face) == face.boundaries

\* v.mapped(Point3::clone): a new Vertex, of identity id
VertexMapped(id, v) == [id |-> id, point |-> v.point]
\* Edge::debug_new(v0, v1, curve): a new Edge, of identity id
EdgeDebugNew(id, v0, v1, poly) ==
    [id |-> id, orientation |-> TRUE, v0 |-> v0, v1 |-> v1, curve |-> poly]
\* Face::debug_new(wires, polygon)
FaceDebugNew(wires, payload) ==
    [boundaries |-> wires, orientation |-> TRUE, surface |-> payload]
\* Face::invert
FaceInvert(face) == [face EXCEPT !.orientation = ~@]

\* the mapped edge used as stored, whatever the occurrence's flag
OrientAsStored(edge, new_edge) == new_edge

\* match edge.orientation() { true => new_edge.clone(), false => new_edge.inverse() }
OrientLike(edge, new_edge) == IF edge.orientation THEN new_edge ELSE inverse(new_edge)

\* EntryMap::entry_or_insert: the entry of key, made from value when absent
EntryOrInsert(map, key, value) ==
    IF key \in DOMAIN map
    THEN [map |-> map, entry |-> map[key], inserted |-> FALSE]
    ELSE [map |-> map @@ (key :> value), entry |-> value, inserted |-> TRUE]

EmptyMap == [x \in {} |-> x]

\* wire.iter().map(Edge::oriented_curve)
WireCurves(wire) == [k \in 1..Len(wire) |-> oriented_curve(wire[k])]

HasNone(log) == \E i \in 1..Len(log) : ~IsSome(log[i].ret)

\* a Polyline that is not made anew for the next face
KeepPolyline(previous) == previous

\* let mut polyline = Polyline::default(), after whatever was there before
NewPolyline(previous) == EmptyPolyline

\* wires.iter().all(|wire| polyline.add_wire(..)) from wire k (1-based) on:
\* acc is [polyline, ok, none, handed]
RECURSIVE AddWiresWith(_, _, _, _, _)
AddWiresWith(inv, acc, s, wires, k) ==
    IF k > Len(wires) \/ ~acc.ok THEN acc
    ELSE Let(AddWireWith(inv, acc.polyline, s, wires[k]), LAMBDA r :
             Let([polyline |-> r.polyline, ok |-> r.res,
                  none |-> acc.none \/ HasNone(r.log),
                  handed |-> Append(acc.handed, wires[k])],
                 LAMBDA next : AddWiresWith(inv, next, s, wires, k + 1)))

AddWires(acc, s, wires, k) == AddWiresWith(Inverter, acc, s, wires, k)

StartWires == [polyline |-> NewPolyline(EmptyPolyline), ok |-> TRUE, none |-> FALSE,
               handed |-> <<>>]

\* the polygon of a face: Some(trimming_tessellation(..)) when every
\* add_wire returned true, None otherwise; panicked when insert_to panics
Polygon(s, acc, rev) ==
    IF acc.ok
    THEN Let(trimming_tessellation(s, acc.polyline, Tol, rev), LAMBDA t :
             [mesh |-> t.mesh, panicked |-> t.panicked, trimmed |-> TRUE])
    ELSE [mesh |-> None, panicked |-> FALSE, trimmed |-> FALSE]

\* Face::debug_new(wires, polygon), inverted when the input face is
NewFace(face, wires, payload) ==
    LET new_face == FaceDebugNew(wires, payload)
    IN IF ~face.orientation THEN FaceInvert(new_face) ELSE new_face

FaceLog(acc, pg, rev) ==
    [none |-> acc.none, trimmed |-> pg.trimmed, rev |-> rev,
     polyline |-> acc.polyline, handed |-> acc.handed]

(***************************************************************************)
(* Wires handed to add_wire: sequences of edge polylines (3D points).      *)
(***************************************************************************)
OuterSquare == << << <<0,0>>, <<2,0>>, <<4,0>> >>, << <<4,0>>, <<4,4>> >>,
                  << <<4,4>>, <<0,4>> >>, << <<0,4>>, <<0,2>>, <<0,0>> >> >>
HoleSquare == << << <<1,1>>, <<1,3>> >>, << <<1,3>>, <<3,3>> >>,
                 << <<3,3>>, <<3,1>> >>, << <<3,1>>, <<1,1>> >> >>
\* a loop across the seam u = 0 = Period of a periodic surface
SeamLoop == << << <<6,0>>, <<7,0>>, <<1,0>> >>, << <<1,0>>, <<1,2>> >>,
               << <<1,2>>, <<7,2>>, <<6,2>> >>, << <<6,2>>, <<6,0>> >> >>
\* a loop across the seam in the other direction
SeamLoopBack == << << <<1,0>>, <<7,0>> >>, << <<7,0>>, <<7,2>> >>,
                   << <<7,2>>, <<1,2>> >>, << <<1,2>>, <<1,0>> >> >>
\* a loop across both seams
CornerLoop == << << <<7,7>>, <<1,7>> >>, << <<1,7>>, <<1,1>> >>,
                 << <<1,1>>, <<7,1>> >>, << <<7,1>>, <<7,7>> >> >>
EmptyWire == <<>>
\* an edge whose polyline holds a single point, and one that holds none
PointWire == << << <<2,2>> >>, <<>> >>
OneEdgeLoop == << << <<5,5>>, <<6,5>>, <<6,6>>, <<5,5>> >> >>

SampleWires == {OuterSquare, HoleSquare, SeamLoop, SeamLoopBack, CornerLoop, EmptyWire,
                PointWire, OneEdgeLoop}

WirePoints(wire) == UNION {Range(wire[k]) : k \in 1..Len(wire)}
SamplePoints == UNION {WirePoints(w) : w \in SampleWires}

SmallSubsets(S, n) == {T \in SUBSET S : Cardinality(T) <= n}

NoCall == [wire |-> <<>>, before |-> EmptyPolyline, res |-> TRUE, counter |-> 0,
           log |-> <<>>, unreachable |-> FALSE, made |-> FALSE]

InitInverter ==
    /\ spFail \in SmallSubsets({<<4,0>>, <<1,3>>, <<7,0>>, <<1,7>>}, MaxFail)
    /\ spFailHint \in SmallSubsets({<<2,0>>, <<1,2>>}, MaxFail)
    /\ spNear \in BOOLEAN
    /\ cdtReject \in SmallSubsets({<<4,4>>, <<1,1>>}, MaxFail)
    /\ hashSeed = 0

NoInclude == [c |-> <<0, 0>>, k |-> 1, kind |-> "none", r |-> <<1, 0>>,
              result |-> FALSE, made |-> FALSE]

\* the Polyline and include variables when no specification uses them
IdlePolyline ==
    /\ surface = Plane
    /\ polyline = EmptyPolyline
    /\ calls = 0
    /\ last = NoCall
    /\ polygon = <<>>
    /\ incl = NoInclude

NoSearch == [point |-> <<0, 0>>, hint |-> <<"None">>, shint |-> <<"None">>,
             uv |-> None, result |-> None, made |-> FALSE]

NoInsert == [cdt |-> CdtNew, poly2tri |-> <<>>, prev |-> None, panicked |-> FALSE,
             log |-> <<>>, made |-> FALSE]

\* the compressed-shell and PCurve variables when no specification uses them
IdleCompressed ==
    /\ cshell = <<>>
    /\ pcurve = <<>>
    /\ search = NoSearch
    /\ triangulation = NoInsert

\* the shell variables when no specification uses them
IdleShell ==
    /\ shell = [vertices |-> <<>>, edges |-> <<>>, faces |-> <<>>]
    /\ phase = "idle"
    /\ single = <<>>
    /\ par = <<>>

InitPolyline ==
    /\ InitInverter
    /\ IdleShell
    /\ IdleCompressed
    /\ surface \in Surfaces
    /\ polyline = EmptyPolyline
    /\ calls = 0
    /\ last = NoCall
    /\ polygon = <<>>
    /\ incl = NoInclude

\* polyline.add_wire(&surface, wire, &sp)
DoAddWire ==
    /\ calls < MaxWires
    /\ \E wire \in SampleWires :
         \E r \in {AddWire(polyline, surface, wire)} :
            /\ polyline' = r.polyline
            /\ last' = [wire |-> wire, before |-> polyline, res |-> r.res,
                        counter |-> r.counter, log |-> r.log,
                        unreachable |-> r.unreachable, made |-> TRUE]
    /\ calls' = calls + 1
    /\ UNCHANGED <<ivars, cvars, svars, surface, polygon, incl>>

NextPolyline == DoAddWire

SpecPolyline == InitPolyline /\ [][NextPolyline]_vars

\* the points a wire submits: each edge polyline without its last point
SubmittedPoints(wire) ==
    Concat([k \in 1..Len(wire) |->
               IF wire[k] = <<>> THEN <<>> ELSE SubSeq(wire[k], 1, Len(wire[k]) - 1)])

\* C10: an add_wire call that returns true on a Polyline of L positions
\* appends the n points its wire submits, in wire order, and the n segments
\* [L + i, L + ((i + 1) mod n)], i = 0..n-1; what earlier wires added is
\* unchanged; a wire that submits no point appends no segment.
C10_AppendsClosedLoop ==
    (last.made /\ last.res) =>
        \A pts \in {SubmittedPoints(last.wire)} :
        \A L \in {Len(last.before.positions)} :
        \A K \in {Len(last.before.indices)} :
        \A n \in {Len(pts)} :
            /\ Len(polyline.positions) = L + n
            /\ SubSeq(polyline.positions, 1, L) = last.before.positions
            /\ \A i \in 1..n :
                  SurfaceSubs(surface, polyline.positions[L + i][1],
                              polyline.positions[L + i][2]) = pts[i]
            /\ Len(polyline.indices) = K + n
            /\ SubSeq(polyline.indices, 1, K) = last.before.indices
            /\ \A i \in 0..(n - 1) :
                  polyline.indices[K + i + 1] = <<L + i, L + ((i + 1) % n)>>

\* a second wire added after a first one, both with points
C10_Witness ==
    /\ last.made /\ last.res
    /\ Len(last.before.positions) > 0
    /\ Len(polyline.positions) > Len(last.before.positions) + 1

\* C11: after any sequence of add_wire calls, whatever each returned, every
\* index stored in indices is less than positions.len().
C11_IndicesInRange ==
    \A i \in 1..Len(polyline.indices) :
        /\ polyline.indices[i][1] < Len(polyline.positions)
        /\ polyline.indices[i][2] < Len(polyline.positions)

\* for each point a wire submits, whether it is the first of its edge
EdgeStarts(wire) ==
    Concat([k \in 1..Len(wire) |-> [i \in 1..(Len(wire[k]) - 1) |-> i = 1]])

\* C12: one add_wire call invokes the inverter on the points its wire
\* submits, in order; the hint is None for the first point of an edge and
\* the UV stored for the preceding point for every later point; a None
\* answer is the last invocation of the call, and exactly the points
\* answered with a UV are appended.
C12_InverterOrder ==
    last.made =>
        \A pts \in {SubmittedPoints(last.wire)} :
        \A starts \in {EdgeStarts(last.wire)} :
        \A L \in {Len(last.before.positions)} :
        \A log \in {last.log} :
            /\ Len(log) <= Len(pts)
            /\ \A j \in 1..Len(log) :
                  /\ log[j].pt = pts[j]
                  /\ starts[j] => log[j].hint = None
                  /\ ~starts[j] => log[j].hint = Some(polyline.positions[L + j - 1])
            /\ \A j \in 1..(Len(log) - 1) : IsSome(log[j].ret)
            /\ Len(polyline.positions)
                  = L + Cardinality({j \in 1..Len(log) : IsSome(log[j].ret)})
            /\ last.res => Len(log) = Len(pts)
            /\ ~last.res => Len(log) > 0 /\ ~IsSome(log[Len(log)].ret)

\* a call on a second wire that the inverter stopped in a later edge, after
\* hinted invocations
C12_Witness ==
    /\ last.made /\ ~last.res
    /\ Len(last.before.positions) > 0
    /\ Len(last.log) >= 3 /\ Len(last.log) < Len(SubmittedPoints(last.wire))
    /\ \E j \in 1..Len(last.log) : IsSome(last.log[j].hint)
    /\ \E j \in 2..Len(last.log) : ~IsSome(last.log[j].hint)

\* x is an element of {r, r - P, r + P} nearest to prev
NearestOfThree(x, r, P, prev) ==
    /\ x \in {r, r - P, r + P}
    /\ \A o \in {r, r - P, r + P} : Abs(x - prev) <= Abs(o - prev)

\* the stored coordinate x of the answer r, on a direction of period p
StoredAsClaimed(x, r, p, prev) ==
    IF IsSome(p) THEN NearestOfThree(x, r, Unwrapped(p), prev) ELSE x = r

\* C13: in one add_wire call the first UV of the wire is stored as the
\* inverter returned it; every later one is stored, on each periodic
\* direction independently, as the element of {u, u - P, u + P} nearest the
\* UV stored before it in the same wire, and unchanged on a direction
\* without period; the arm marked unreachable is never taken.
C13_NearestPeriod ==
    last.made =>
        \A L \in {Len(last.before.positions)} :
        \A log \in {last.log} :
            /\ ~last.unreachable
            /\ \A j \in 1..Len(log) :
                  IsSome(log[j].ret) =>
                     \A r \in {Unwrapped(log[j].ret)} :
                     \A x \in {polyline.positions[L + j]} :
                        IF j = 1 THEN x = r
                        ELSE \A prev \in {polyline.positions[L + j - 1]} :
                                /\ StoredAsClaimed(x[1], r[1], surface.up, prev[1])
                                /\ StoredAsClaimed(x[2], r[2], surface.vp, prev[2])

\* a second wire on a periodic surface with a UV stored a period below what
\* the inverter returned, after a first wire with a UV stored a period above
C13_Witness ==
    /\ last.made /\ last.res
    /\ IsSome(surface.up)
    /\ \E i \in 1..Len(last.before.positions) : last.before.positions[i][1] >= Period
    /\ \A L \in {Len(last.before.positions)} :
          \E j \in 2..Len(last.log) :
             polyline.positions[L + j][1] = Unwrapped(last.log[j].ret)[1] - Period

(***************************************************************************)
(* shell_tessellation_single_thread, one step per edge_map lookup, per     *)
(* add_wire call and per finished face.                                    *)
(***************************************************************************)
NumFaces == Len(shell.faces)

\* the per-face locals at the start of the closure on face f
BeginFace(rec, f) ==
    [rec EXCEPT !.face = f, !.wires = <<>>, !.wire = <<>>,
                !.acc = [StartWires EXCEPT !.polyline = NewPolyline(rec.acc.polyline)],
                !.state = IF f > NumFaces THEN "returned"
                          ELSE IF shell.faces[f].boundaries = <<>> THEN "finish"
                          ELSE "wires"]

StInit ==
    BeginFace([vmap |-> EmptyMap, edge_map |-> EmptyMap, next |-> 0, lookups |-> <<>>,
               face |-> 1, wires |-> <<>>, wire |-> <<>>, acc |-> StartWires,
               out |-> <<>>, log |-> <<>>, state |-> "wires"], 1)

\* the closure that makes the entry of edge: lines 123-131
StCloneEdge(vmap, next, edge) ==
    LET vf == absolute_front(edge)
        r0 == EntryOrInsert(vmap, vf.id, VertexMapped(<<"single", next>>, vf))
        n1 == IF r0.inserted THEN next + 1 ELSE next
        vb == absolute_back(edge)
        r1 == EntryOrInsert(r0.map, vb.id, VertexMapped(<<"single", n1>>, vb))
        n2 == IF r1.inserted THEN n1 + 1 ELSE n1
        poly == from_curve(curve(edge), Tol)
    IN [vmap |-> r1.map, next |-> n2 + 1,
        edge |-> EdgeDebugNew(<<"single", n2>>, r0.entry, r1.entry, poly)]

\* an edge_map that clones the edge on every lookup
StAlwaysInsert(rec, edge) ==
    Let(StCloneEdge(rec.vmap, rec.next, edge), LAMBDA made :
        [vmap |-> made.vmap, next |-> made.next,
         edge_map |-> (edge.id :> made.edge) @@ rec.edge_map,
         entry |-> made.edge, inserted |-> TRUE])

\* edge_map.entry_or_insert(edge)
StEntryOrInsert(rec, edge) ==
    Let(StCloneEdge(rec.vmap, rec.next, edge), LAMBDA made :
    Let(EntryOrInsert(rec.edge_map, edge.id, made.edge), LAMBDA r :
        IF r.inserted
        THEN [vmap |-> made.vmap, next |-> made.next, edge_map |-> r.map,
              entry |-> r.entry, inserted |-> TRUE]
        ELSE [vmap |-> rec.vmap, next |-> rec.next, edge_map |-> rec.edge_map,
              entry |-> r.entry, inserted |-> FALSE]))

\* the next edge of the boundary under construction: lines 141-147
StLookupEdge ==
    /\ phase = "single" /\ single.state = "wires"
    /\ \E face \in {ShellFace(shell, single.face)} :
       \E edge \in {absolute_boundaries(face)[Len(single.wires) + 1][Len(single.wire) + 1]} :
       \E r \in {StEntryOrInsert(single, edge)} :
       LET w == Len(single.wires) + 1
           e == Len(single.wire) + 1
           wire2 == Append(single.wire, OrientLike(edge, r.entry))
           wireDone == e = Len(absolute_boundaries(face)[w])
           allDone == wireDone /\ w = Len(absolute_boundaries(face))
       IN single' = [single EXCEPT !.vmap = r.vmap, !.edge_map = r.edge_map, !.next = r.next,
                           !.lookups = Append(@, [id |-> edge.id, inserted |-> r.inserted,
                                                  entry |-> r.entry.id]),
                           !.wire = IF wireDone THEN <<>> ELSE wire2,
                           !.wires = IF wireDone THEN Append(@, wire2) ELSE @,
                           !.state = IF allDone THEN "add_wire" ELSE "wires"]
    /\ UNCHANGED <<ivars, cvars, pvars, shell, phase, par>>

\* the next polyline.add_wire of wires.iter().all(..): lines 153-155
StAddWire ==
    /\ phase = "single" /\ single.state = "add_wire"
    /\ \E k \in {Len(single.acc.handed) + 1} :
       \E acc2 \in {AddWires(single.acc, ShellFace(shell, single.face).surface,
                              [j \in 1..k |-> WireCurves(single.wires[j])], k)} :
          single' = [single EXCEPT !.acc = acc2,
                           !.state = IF ~acc2.ok \/ k = Len(single.wires)
                                     THEN "finish" ELSE "add_wire"]
    /\ UNCHANGED <<ivars, cvars, pvars, shell, phase, par>>

ParInit ==
    [vmap |-> EmptyMap, edge_map |-> EmptyMap, out |-> [f \in 1..NumFaces |-> None],
     log |-> [f \in 1..NumFaces |-> None], state |-> "vertices"]

\* the rest of the closure on a face: lines 156-163
StFinishFace ==
    /\ phase = "single" /\ single.state = "finish"
    /\ \E rev \in BOOLEAN :
         \E face \in {ShellFace(shell, single.face)} :
         \E pg \in {Polygon(face.surface, single.acc, rev)} :
         \E next \in {BeginFace([single EXCEPT
                                    !.out = Append(@, NewFace(face, single.wires, pg.mesh)),
                                    !.log = Append(@, FaceLog(single.acc, pg, rev))],
                                single.face + 1)} :
            IF pg.panicked
            THEN single' = [single EXCEPT !.state = "panicked"] /\ phase' = "parallel"
            ELSE single' = next
                 /\ phase' = IF next.state = "returned" THEN "parallel" ELSE phase
    /\ par' = IF phase' = "parallel" THEN ParInit ELSE par
    /\ UNCHANGED <<ivars, cvars, pvars, shell>>

(***************************************************************************)
(* shell_tessellation: the maps are collected first, then the faces are    *)
(* tessellated by parallel tasks, in any order.                            *)
(***************************************************************************)
VertexIndices == 0..(Len(shell.vertices) - 1)
EdgeIndices == 0..(Len(shell.edges) - 1)

\* the EdgeRefs of the shell's boundaries: shell.edge_par_iter()
EdgeOccurrences ==
    UNION {UNION {Range(shell.faces[f].boundaries[w]) :
                     w \in 1..Len(shell.faces[f].boundaries)} : f \in 1..NumFaces}

\* HashMap::get(..).unwrap(): None stands for the panic of unwrap
MapGet(map, key) == IF key \in DOMAIN map THEN Some(map[key]) ELSE None

\* vmap: lines 56-59
ParCollectVertices ==
    /\ phase = "parallel" /\ par.state = "vertices"
    /\ par' = [par EXCEPT
                 !.vmap = [id \in {InputId("v", i) : i \in VertexIndices} |->
                             VertexMapped(<<"par", "v", id[3]>>, ShellVertex(shell, id[3]))],
                 !.state = "edges"]
    /\ UNCHANGED <<ivars, cvars, pvars, shell, phase, single>>

\* an entry built from the oriented front, back and curve of the occurrence
ParCloneEdgeOriented(vmap, edge) ==
    LET v0 == MapGet(vmap, front(edge).id)
        v1 == MapGet(vmap, back(edge).id)
        poly == from_curve(oriented_curve(edge), Tol)
    IN IF IsSome(v0) /\ IsSome(v1)
       THEN Some(EdgeDebugNew(<<"par", "e", edge.id[3]>>, Unwrapped(v0), Unwrapped(v1), poly))
       ELSE None

\* the entry of edge_map made from the occurrence eset kept: lines 63-69
ParCloneEdge(vmap, edge) ==
    LET v0 == MapGet(vmap, absolute_front(edge).id)
        v1 == MapGet(vmap, absolute_back(edge).id)
        poly == from_curve(curve(edge), Tol)
    IN IF IsSome(v0) /\ IsSome(v1)
       THEN Some(EdgeDebugNew(<<"par", "e", edge.id[3]>>, Unwrapped(v0), Unwrapped(v1), poly))
       ELSE None

\* eset and edge_map: lines 60-70; eset keeps one occurrence per identity,
\* whichever the parallel collect wrote last
ParCollectEdges ==
    /\ phase = "parallel" /\ par.state = "edges"
    /\ \E eset \in [{r.index : r \in EdgeOccurrences} -> BOOLEAN] :
         /\ \A i \in DOMAIN eset : EdgeRef(i, eset[i]) \in EdgeOccurrences
         /\ LET made == [i \in DOMAIN eset |->
                           ParCloneEdge(par.vmap, ShellEdge(shell, EdgeRef(i, eset[i])))]
            IN IF \A i \in DOMAIN made : IsSome(made[i])
               THEN par' = [par EXCEPT
                              !.edge_map = [id \in {InputId("e", i) : i \in DOMAIN made} |->
                                              Unwrapped(made[id[3]])],
                              !.state = IF NumFaces = 0 THEN "returned" ELSE "faces"]
               ELSE par' = [par EXCEPT !.state = "panicked"]
    /\ phase' = IF par'.state \in {"returned", "panicked"} THEN "done" ELSE phase
    /\ UNCHANGED <<ivars, cvars, pvars, shell, single>>

\* create_edge: lines 71-77
create_edge(edge_map, edge) ==
    LET new_edge == MapGet(edge_map, edge.id)
    IN IF IsSome(new_edge) THEN Some(OrientLike(edge, Unwrapped(new_edge))) ELSE None

\* create_boundary: lines 78-79
create_boundary(edge_map, wire) == [k \in 1..Len(wire) |-> create_edge(edge_map, wire[k])]

\* the closure on one face: lines 82-101
ParTessellateFace(edge_map, face, rev) ==
    LET made == [w \in 1..Len(absolute_boundaries(face)) |->
                    create_boundary(edge_map, absolute_boundaries(face)[w])]
        unwrapOk == \A w \in 1..Len(made) : \A k \in 1..Len(made[w]) : IsSome(made[w][k])
        wires == [w \in 1..Len(made) |-> [k \in 1..Len(made[w]) |-> Unwrapped(made[w][k])]]
    IN IF ~unwrapOk THEN [face |-> None, panicked |-> TRUE, log |-> None]
       ELSE Let(AddWires(StartWires, face.surface,
                         [w \in 1..Len(wires) |-> WireCurves(wires[w])], 1), LAMBDA acc :
            Let(Polygon(face.surface, acc, rev), LAMBDA pg :
                IF pg.panicked THEN [face |-> None, panicked |-> TRUE, log |-> None]
                ELSE [face |-> Some(NewFace(face, wires, pg.mesh)), panicked |-> FALSE,
                      log |-> Some(FaceLog(acc, pg, rev))]))

\* one task of face_par_iter().map(..): any face not yet tessellated
ParFace ==
    /\ phase = "parallel" /\ par.state = "faces"
    /\ \E f \in 1..NumFaces, rev \in BOOLEAN :
         /\ ~IsSome(par.out[f])
         /\ \E r \in {ParTessellateFace(par.edge_map, ShellFace(shell, f), rev)} :
            LET out2 == [par.out EXCEPT ![f] = r.face]
            IN IF r.panicked
               THEN par' = [par EXCEPT !.state = "panicked"]
               ELSE par' = [par EXCEPT !.out = out2, !.log[f] = r.log,
                                       !.state = IF \A g \in 1..NumFaces : IsSome(out2[g])
                                                 THEN "returned" ELSE "faces"]
    /\ phase' = IF par'.state \in {"returned", "panicked"} THEN "done" ELSE phase
    /\ UNCHANGED <<ivars, cvars, pvars, shell, single>>

InitShell ==
    /\ spFail \in SmallSubsets({<<6,0>>, <<4,4>>}, MaxFail)
    /\ spFailHint = {}
    /\ spNear \in BOOLEAN
    /\ cdtReject \in SmallSubsets({<<8,4>>, <<2,2>>}, MaxFail)
    /\ hashSeed = 0
    /\ IdlePolyline
    /\ IdleCompressed
    /\ shell \in SampleShells
    /\ phase = "single"
    /\ single = StInit
    /\ par = <<>>

Next == StLookupEdge \/ StAddWire \/ StFinishFace
           \/ ParCollectVertices \/ ParCollectEdges \/ ParFace

Spec == InitShell /\ [][Next]_vars

(***************************************************************************)
(* What the two shell functions have produced, against the input shell.    *)
(***************************************************************************)
ParStarted == phase \in {"parallel", "done"}

\* <<input face number, output face, what its tessellation did>>
SingleFaces == {<<f, single.out[f], single.log[f]>> : f \in 1..Len(single.out)}
ParFaces == IF ParStarted
            THEN {<<f, Unwrapped(par.out[f]), Unwrapped(par.log[f])>> :
                     f \in {g \in 1..NumFaces : IsSome(par.out[g])}}
            ELSE {}
OutFaces == SingleFaces \cup ParFaces

SingleReturned == single.state = "returned"
ParReturned == ParStarted /\ par.state = "returned"
SinglePanicked == single.state = "panicked"
ParPanicked == ParStarted /\ par.state = "panicked"

\* positions <<w, k>> of the edges of a face's boundaries
Occurrences(boundaries) ==
    UNION {{<<w, k>> : k \in 1..Len(boundaries[w])} : w \in 1..Len(boundaries)}

SameShape(out, in) ==
    /\ Len(out.boundaries) = Len(in.boundaries)
    /\ \A w \in 1..Len(in.boundaries) : Len(out.boundaries[w]) = Len(in.boundaries[w])

\* a whole shell as the set of its edge occurrences <<f, w, k>>
ShellOccurrences(faces) ==
    UNION {{<<f, o[1], o[2]>> : o \in Occurrences(faces[f].boundaries)} :
              f \in 1..Len(faces)}
EdgeAt(faces, o) == faces[o[1]].boundaries[o[2]][o[3]]
InputFaces == [f \in 1..NumFaces |-> ShellFace(shell, f)]
ParOut == [f \in 1..NumFaces |-> Unwrapped(par.out[f])]

\* C1: each shell function returns, never aborts, and the shell it returns
\* has one face per input face, in input order, each with as many wires and
\* as many edges per wire as its input face.
C1_TotalSameTopology ==
    /\ ~SinglePanicked
    /\ ~ParPanicked
    /\ SingleReturned =>
          /\ Len(single.out) = NumFaces
          /\ \A f \in 1..NumFaces : SameShape(single.out[f], InputFaces[f])
    /\ ParReturned =>
          \A f \in 1..NumFaces :
             IsSome(par.out[f]) /\ SameShape(ParOut[f], InputFaces[f])

\* the polylines the boundaries of input face f hand to add_wire
InputWireCurves(f) ==
    Let(ShellFace(shell, f), LAMBDA face :
        [w \in 1..Len(face.boundaries) |->
            [k \in 1..Len(face.boundaries[w]) |->
                LET e == face.boundaries[w][k]
                IN IF e.orientation THEN from_curve(e.curve, Tol)
                   ELSE PolylineInverse(from_curve(e.curve, Tol))]])

\* an inverter that follows hints as the given one does and never fails
Unfailing == [fail |-> {}, failHint |-> {}, near |-> spNear]

\* the mesh of input face f alone under the unfailing inverter
MeshAlone(f, rev) ==
    Let(ShellFace(shell, f).surface, LAMBDA s :
    Let(AddWiresWith(Unfailing, StartWires, s, InputWireCurves(f), 1), LAMBDA acc :
        Polygon(s, acc, rev).mesh))

\* C2: the mesh of an output face is None iff the inverter returned None for
\* a point of that face handed to it; such a face keeps its wires and its
\* orientation and is not trimmed; a face without such a point has the mesh
\* it has when tessellated alone under an inverter that never fails.
C2_NoneIffInverterFailed ==
    \A t \in OutFaces : \A in \in {ShellFace(shell, t[1])} :
        /\ ~IsSome(t[2].surface) <=> t[3].none
        /\ t[3].none => ~t[3].trimmed
        /\ SameShape(t[2], in)
        /\ t[2].orientation = in.orientation
        /\ [w \in 1..Len(t[2].boundaries) |-> WireCurves(t[2].boundaries[w])]
              = InputWireCurves(t[1])
        /\ ~t[3].none => t[2].surface = MeshAlone(t[1], t[3].rev)

\* a shell with a failed face and a meshed face, from both functions
C2_Witness ==
    /\ SingleReturned /\ ParReturned
    /\ \E t \in SingleFaces : t[3].none /\ ~IsSome(t[2].surface)
    /\ \E t \in SingleFaces : ~t[3].none /\ IsSome(t[2].surface)
                                /\ Unwrapped(t[2].surface).tri_faces # <<>>
    /\ \E t \in ParFaces : t[3].none

Count(seq, x) == Cardinality({i \in 1..Len(seq) : seq[i] = x})
SameUpToOrder(s1, s2) ==
    /\ Len(s1) = Len(s2)
    /\ \A x \in Range(s1) \cup Range(s2) : Count(s1, x) = Count(s2, x)

MeshesAgree(m1, m2) ==
    \/ ~IsSome(m1) /\ ~IsSome(m2)
    \/ /\ IsSome(m1) /\ IsSome(m2)
       /\ Unwrapped(m1).positions = Unwrapped(m2).positions
       /\ Unwrapped(m1).uv_coords = Unwrapped(m2).uv_coords
       /\ Unwrapped(m1).normals = Unwrapped(m2).normals
       /\ SameUpToOrder(Unwrapped(m1).tri_faces, Unwrapped(m2).tri_faces)

\* two shells have the same sharing of edges and of vertices
SameSharing(faces1, faces2) ==
    \A a \in {faces1} : \A b \in {faces2} : \A o1, o2 \in ShellOccurrences(a) :
        /\ EdgeAt(a, o1).id = EdgeAt(a, o2).id <=> EdgeAt(b, o1).id = EdgeAt(b, o2).id
        /\ EdgeAt(a, o1).v0.id = EdgeAt(a, o2).v0.id
               <=> EdgeAt(b, o1).v0.id = EdgeAt(b, o2).v0.id
        /\ EdgeAt(a, o1).v0.id = EdgeAt(a, o2).v1.id
               <=> EdgeAt(b, o1).v0.id = EdgeAt(b, o2).v1.id
        /\ EdgeAt(a, o1).v1.id = EdgeAt(a, o2).v1.id
               <=> EdgeAt(b, o1).v1.id = EdgeAt(b, o2).v1.id

\* C3: when both functions have returned, their shells agree face by face:
\* same sharing of edges and vertices, same orientations, same edge
\* polylines, and meshes both None or equal up to the order of triangles.
C3_PathsAgree ==
    (SingleReturned /\ ParReturned) =>
        \A a \in {single.out} : \A b \in {ParOut} :
        /\ \A f \in 1..NumFaces :
              /\ SameShape(a[f], b[f])
              /\ a[f].orientation = b[f].orientation
              /\ MeshesAgree(a[f].surface, b[f].surface)
        /\ SameSharing(a, b)
        /\ \A o \in ShellOccurrences(a) :
              /\ EdgeAt(a, o).orientation = EdgeAt(b, o).orientation
              /\ EdgeAt(a, o).curve = EdgeAt(b, o).curve
              /\ EdgeAt(a, o).v0.point = EdgeAt(b, o).v0.point
              /\ EdgeAt(a, o).v1.point = EdgeAt(b, o).v1.point

\* both returned, on a shell with an edge used backwards and a mesh whose
\* triangles the two functions list in different orders
C3_Witness ==
    /\ SingleReturned /\ ParReturned
    /\ \E o \in ShellOccurrences(single.out) : ~EdgeAt(single.out, o).orientation
    /\ \E f \in 1..NumFaces :
          /\ IsSome(single.out[f].surface)
          /\ single.out[f].surface # ParOut[f].surface

\* C4: output edge occurrences share an identity iff the input occurrences
\* they replace do, and likewise vertices; the single-thread function clones
\* an edge at the first lookup of its identity and at no later one, and
\* every lookup of an identity yields that one clone.
C4_ClonedOnce ==
    /\ SameSharing(single.out, [f \in 1..Len(single.out) |-> InputFaces[f]])
    /\ ParReturned => SameSharing(ParOut, InputFaces)
    /\ \A i \in 1..Len(single.lookups) :
          /\ single.lookups[i].inserted
                <=> ~\E j \in 1..(i - 1) : single.lookups[j].id = single.lookups[i].id
          /\ \A j \in 1..(i - 1) :
                single.lookups[j].id = single.lookups[i].id
                   => single.lookups[j].entry = single.lookups[i].entry

\* a returned shell in which an identity was looked up again, from a later
\* face
C4_Witness ==
    /\ SingleReturned /\ ParReturned
    /\ \E i \in 1..Len(single.lookups) : ~single.lookups[i].inserted
    /\ \E o1, o2 \in ShellOccurrences(single.out) :
          o1[1] # o2[1] /\ EdgeAt(single.out, o1).id = EdgeAt(single.out, o2).id

\* the edges of a wire join head to tail wherever the input's do
HeadToTail(out, in) ==
    \A w \in 1..Len(in.boundaries) : \A k \in 1..Len(in.boundaries[w]) :
        LET n == (k % Len(in.boundaries[w])) + 1
        IN back(in.boundaries[w][k]).id = front(in.boundaries[w][n]).id
              => back(out.boundaries[w][k]).id = front(out.boundaries[w][n]).id

\* C5: an output edge occurrence has the orientation flag of the input
\* occurrence it replaces, and is built from the input's absolute front,
\* back and curve; the edges of an output wire join head to tail; an output
\* face has the orientation flag of its input face.
C5_OrientationKept ==
    \A t \in OutFaces : \A face \in {ShellFace(shell, t[1])} :
        /\ t[2].orientation = face.orientation
        /\ SameShape(t[2], face)
        /\ HeadToTail(t[2], face)
        /\ \A o \in Occurrences(face.boundaries) :
              LET in == face.boundaries[o[1]][o[2]]
                  out == t[2].boundaries[o[1]][o[2]]
              IN /\ out.orientation = in.orientation
                 /\ absolute_front(out).point = absolute_front(in).point
                 /\ absolute_back(out).point = absolute_back(in).point
                 /\ curve(out) = from_curve(curve(in), Tol)

\* a returned shell with an inverted face and an edge used backwards whose
\* entry the parallel function made from that backward occurrence
C5_Witness ==
    /\ SingleReturned /\ ParReturned
    /\ \E t \in OutFaces :
          /\ ~t[2].orientation
          /\ \E o \in Occurrences(t[2].boundaries) :
                ~t[2].boundaries[o[1]][o[2]].orientation

Meshes == {Unwrapped(t[2].surface) : t \in {u \in OutFaces : IsSome(u[2].surface)}}

\* C6: in every mesh, positions, uv_coords and normals have one length, and
\* every vertex of every triangle has position, uv and normal indices equal
\* to one index below that length.
C6_AttributesAligned ==
    \A m \in Meshes :
        /\ Len(m.positions) = Len(m.uv_coords)
        /\ Len(m.positions) = Len(m.normals)
        /\ \A j \in 1..Len(m.tri_faces) : \A c \in 1..3 :
              LET v == m.tri_faces[j][c]
              IN /\ IsSome(v.uv) /\ IsSome(v.nor)
                 /\ Unwrapped(v.uv) = v.pos /\ Unwrapped(v.nor) = v.pos
                 /\ v.pos >= 0 /\ v.pos < Len(m.positions)

\* a mesh with triangles, one of them on the last vertex
C6_Witness ==
    \E m \in Meshes : \E j \in 1..Len(m.tri_faces) : \E c \in 1..3 :
        m.tri_faces[j][c].pos = Len(m.positions) - 1


(***************************************************************************)
(* Polyline::include on the boundary of a convex polygon.                  *)
(***************************************************************************)
GridCoords == {0, 3, 6}
GridPoints == GridCoords \X GridCoords

Triangles == {t \in GridPoints \X GridPoints \X GridPoints :
                 Cross(Minus(t[2], t[1]), Minus(t[3], t[1])) # 0}
Quadrilaterals == { << <<0,0>>, <<6,0>>, <<6,6>>, <<0,6>> >>,
                    << <<0,6>>, <<6,6>>, <<6,0>>, <<0,0>> >>,
                    << <<0,0>>, <<6,0>>, <<3,3>>, <<0,6>> >>,
                    << <<0,6>>, <<3,3>>, <<6,0>>, <<0,0>> >>,
                    << <<3,0>>, <<6,3>>, <<3,6>>, <<0,3>> >>,
                    << <<0,3>>, <<3,6>>, <<6,3>>, <<3,0>> >> }
ConvexPolygons == Triangles \cup Quadrilaterals

\* points well outside the grid the polygons live on
FarPoints == { <<-20,-20>>, <<30,0>>, <<-30,6>>, <<3,40>>, <<0,-30>>, <<25,26>>,
               <<-17,5>>, <<19,-23>>, <<6,-24>>, <<-30,-30>> }

Succ(i, n) == (i % n) + 1

\* twice the signed area: positive for a counter-clockwise boundary
Area2(P) == SumSeq([i \in 1..Len(P) |-> Cross(P[i], P[Succ(i, Len(P))])])

\* the wire of one two-point edge polyline per side
PolygonWire(P) == [i \in 1..Len(P) |-> <<P[i], P[Succ(i, Len(P))]>>]

VertexSum(P) == <<SumSeq([i \in 1..Len(P) |-> P[i][1]]),
                  SumSeq([i \in 1..Len(P) |-> P[i][2]])>>

InitInclude ==
    /\ spFail = {} /\ spFailHint = {} /\ spNear = FALSE /\ cdtReject = {}
    /\ IdleShell
    /\ IdleCompressed
    /\ surface = Plane
    /\ polygon \in ConvexPolygons
    /\ polyline = AddWire(EmptyPolyline, Plane, PolygonWire(polygon)).polyline
    /\ calls = 1
    /\ last = NoCall
    /\ hashSeed \in 0..(Len(Directions) - 1)
    /\ incl = NoInclude

IncludeRecord(c, k, kind) ==
    [c |-> c, k |-> k, kind |-> kind, r |-> RayDirection(c, k),
     result |-> Include(polyline, c, k), made |-> TRUE]

\* polyline.include(centroid of the polygon)
IncludeCentroid ==
    /\ ~incl.made
    /\ polygon # <<>>
    /\ incl' = IncludeRecord(VertexSum(polygon), Len(polygon), "centroid")
    /\ UNCHANGED <<ivars, cvars, svars, surface, polyline, calls, last, polygon>>

\* polyline.include(a far exterior point)
IncludeFar ==
    /\ ~incl.made
    /\ polygon # <<>>
    /\ \E f \in FarPoints : incl' = IncludeRecord(f, 1, "far")
    /\ UNCHANGED <<ivars, cvars, svars, surface, polyline, calls, last, polygon>>

\* polyline.include(a point of a boundary segment, between its endpoints):
\* the point a third or a half of the way along the segment
IncludeOnEdge ==
    /\ ~incl.made
    /\ polygon # <<>>
    /\ \E i \in 1..Len(polyline.indices), k \in {2, 3} :
          \A pa \in {At(polyline.positions, polyline.indices[i][1])} :
          \A pb \in {At(polyline.positions, polyline.indices[i][2])} :
             incl' = IncludeRecord(<<(k - 1) * pa[1] + pb[1], (k - 1) * pa[2] + pb[2]>>,
                                   k, "edge")
    /\ UNCHANGED <<ivars, cvars, svars, surface, polyline, calls, last, polygon>>

NextInclude == IncludeCentroid \/ IncludeFar \/ IncludeOnEdge

SpecInclude == InitInclude /\ [][NextInclude]_vars

RayMeetsVertex ==
    \E i \in 1..Len(polyline.positions) :
        LET a == <<incl.k * polyline.positions[i][1] - incl.c[1],
                   incl.k * polyline.positions[i][2] - incl.c[2]>>
        IN Cross(incl.r, a) = 0 /\ incl.r[1] * a[1] + incl.r[2] * a[2] > 0

OnSegment(i) ==
    \A pa \in {At(polyline.positions, polyline.indices[i][1])} :
    \A pb \in {At(polyline.positions, polyline.indices[i][2])} :
    \A a \in {<<incl.k * pa[1] - incl.c[1], incl.k * pa[2] - incl.c[2]>>} :
    \A b \in {<<incl.k * pb[1] - incl.c[1], incl.k * pb[2] - incl.c[2]>>} :
        Cross(a, b) = 0 /\ a[1] * b[1] + a[2] * b[2] < 0

\* the ray runs along the line of segment i
RayAlong(i) ==
    Cross(incl.r, Minus(At(polyline.positions, polyline.indices[i][2]),
                        At(polyline.positions, polyline.indices[i][1]))) = 0

Dangling ==
    [vertices |-> << <<0,0>>, <<4,0>>, <<0,4>> >>,
     edges |-> << CEdge(0, 1, << <<0,0>>, <<2,0>>, <<4,0>> >>),
                  CEdge(1, 2, << <<4,0>>, <<0,4>> >>),
                  CEdge(2, 0, << <<0,4>>, <<0,0>> >>) >>,
     faces |-> << [boundaries |-> << <<Fwd(0), Fwd(1), Fwd(5), Fwd(2)>> >>,
                   orientation |-> TRUE, surface |-> Plane] >>]

CompressedShells == SampleShells \cup {Dangling}

NumEdges == Len(shell.edges)

CsInit ==
    [vertices |-> shell.vertices,
     edges |-> [i \in 1..NumEdges |-> None], from_curve |-> [i \in 1..NumEdges |-> 0],
     faces |-> [f \in 1..NumFaces |-> None], log |-> [f \in 1..NumFaces |-> None],
     state |-> IF NumEdges = 0 THEN "faces" ELSE "edges"]

\* tessellate_edge: lines 180-186
tessellate_edge(edge) ==
    [vertices |-> edge.vertices, curve |-> from_curve(edge.curve, Tol)]

\* one task of shell.edges.par_iter().map(tessellate_edge)
CsEdge ==
    /\ phase = "compressed" /\ cshell.state = "edges"
    /\ \E i \in 1..NumEdges :
         /\ ~IsSome(cshell.edges[i])
         /\ \E edges2 \in {[cshell.edges EXCEPT ![i] = Some(tessellate_edge(shell.edges[i]))]} :
              cshell' = [cshell EXCEPT !.edges = edges2, !.from_curve[i] = @ + 1,
                                       !.state = IF \A j \in 1..NumEdges : IsSome(edges2[j])
                                                 THEN "faces" ELSE "edges"]
    /\ UNCHANGED <<ivars, pvars, shell, phase, single, par, pcurve, search, triangulation>>

\* a curve that is never inverted
CsStoredCurve(edges, edge_idx) ==
    IF InRange(edges, edge_idx.index)
    THEN Some(At(edges, edge_idx.index).curve)
    ELSE None

\* the filter_map closure of wire_iter: lines 198-201
CsOrientedCurve(edges, edge_idx) ==
    IF ~InRange(edges, edge_idx.index) THEN None
    ELSE IF edge_idx.orientation THEN Some(At(edges, edge_idx.index).curve)
    ELSE Some(PolylineInverse(At(edges, edge_idx.index).curve))

\* wire.iter().filter_map(..)
RECURSIVE CsWireIter(_, _)
CsWireIter(edges, wire) ==
    IF wire = <<>> THEN <<>>
    ELSE Let(CsOrientedCurve(edges, Head(wire)), LAMBDA c :
             (IF IsSome(c) THEN <<Unwrapped(c)>> ELSE <<>>) \o CsWireIter(edges, Tail(wire)))

\* tessellate_face: lines 191-212
tessellate_face(edges, face, rev) ==
    Let([w \in 1..Len(face.boundaries) |-> CsWireIter(edges, face.boundaries[w])],
        LAMBDA wires :
    Let(AddWires(StartWires, face.surface, wires, 1), LAMBDA acc :
    Let(Polygon(face.surface, acc, rev), LAMBDA pg :
        [face |-> [boundaries |-> face.boundaries, orientation |-> face.orientation,
                   surface |-> pg.mesh],
         panicked |-> pg.panicked, log |-> FaceLog(acc, pg, rev)])))

\* one task of shell.faces.par_iter().map(tessellate_face)
CsFace ==
    /\ phase = "compressed" /\ cshell.state = "faces"
    /\ \E f \in 1..NumFaces, rev \in BOOLEAN :
         /\ ~IsSome(cshell.faces[f])
         /\ \E r \in {tessellate_face([i \in 1..NumEdges |-> Unwrapped(cshell.edges[i])],
                                      shell.faces[f], rev)} :
              IF r.panicked
              THEN cshell' = [cshell EXCEPT !.state = "panicked"]
              ELSE cshell' = [cshell EXCEPT !.faces[f] = Some(r.face),
                                            !.log[f] = Some(r.log)]
    /\ UNCHANGED <<ivars, pvars, shell, phase, single, par, pcurve, search, triangulation>>

\* MeshedCShell { vertices, edges, faces }: lines 217-221
CsReturn ==
    /\ phase = "compressed" /\ cshell.state = "faces"
    /\ \A f \in 1..NumFaces : IsSome(cshell.faces[f])
    /\ cshell' = [cshell EXCEPT !.state = "returned"]
    /\ phase' = "done"
    /\ UNCHANGED <<ivars, pvars, shell, single, par, pcurve, search, triangulation>>

\* the shell cshell_tessellation returns
MeshedCShell ==
    [vertices |-> cshell.vertices,
     edges |-> [i \in 1..NumEdges |-> Unwrapped(cshell.edges[i])],
     faces |-> [f \in 1..NumFaces |-> Unwrapped(cshell.faces[f])]]

InitCShell ==
    /\ spFail \in SmallSubsets({<<6,0>>, <<4,4>>}, MaxFail)
    /\ spFailHint = {}
    /\ spNear \in BOOLEAN
    /\ cdtReject \in SmallSubsets({<<2,2>>}, MaxFail)
    /\ hashSeed = 0
    /\ IdlePolyline
    /\ pcurve = <<>>
    /\ search = NoSearch
    /\ triangulation = NoInsert
    /\ shell \in CompressedShells
    /\ phase = "compressed"
    /\ single = <<>>
    /\ par = <<>>
    /\ cshell = CsInit

NextCShell == CsEdge \/ CsFace \/ CsReturn

SpecCShell == InitCShell /\ [][NextCShell]_vars

\* the polylines wire w of input face f hands to add_wire: one per EdgeRef
\* that names an edge
ExpectedWire(f, w) ==
    Let(SelectSeq(shell.faces[f].boundaries[w],
                  LAMBDA ref : ref.index >= 0 /\ ref.index < NumEdges), LAMBDA refs :
        [k \in 1..Len(refs) |->
            IF refs[k].orientation
            THEN from_curve(At(shell.edges, refs[k].index).curve, Tol)
            ELSE Reverse(from_curve(At(shell.edges, refs[k].index).curve, Tol))])

\* C9 as stated, its last part: every EdgeRef of a boundary contributes a
\* polyline, so a wire hands add_wire as many polylines as it has EdgeRefs.
C9_EveryRefContributes ==
    phase \in {"compressed", "done"} =>
        \A f \in 1..NumFaces :
           IsSome(cshell.log[f]) =>
              \A handed \in {Unwrapped(cshell.log[f]).handed} :
                 \A w \in 1..Len(handed) :
                    Len(handed[w]) = Len(shell.faces[f].boundaries[w])

\* C9: the shell cshell_tessellation builds has the input's vertices; its
\* edge k has the vertex pair of input edge k and the polyline of its curve,
\* made by one from_curve call; its faces have the input's boundaries and
\* orientation; and each EdgeRef of a boundary that names an edge hands
\* add_wire the polyline of that edge, as stored when its orientation is
\* true and reversed when it is false, while an EdgeRef that names no edge
\* hands it nothing.
C9_CompressedKept ==
    phase \in {"compressed", "done"} =>
        /\ cshell.vertices = shell.vertices
        /\ \A i \in 1..NumEdges :
              /\ cshell.from_curve[i] = (IF IsSome(cshell.edges[i]) THEN 1 ELSE 0)
              /\ IsSome(cshell.edges[i]) =>
                    /\ Unwrapped(cshell.edges[i]).vertices = shell.edges[i].vertices
                    /\ Unwrapped(cshell.edges[i]).curve = from_curve(shell.edges[i].curve, Tol)
        /\ \A f \in 1..NumFaces :
              IsSome(cshell.faces[f]) =>
                 \A face \in {Unwrapped(cshell.faces[f])} :
                 \A handed \in {Unwrapped(cshell.log[f]).handed} :
                    /\ face.boundaries = shell.faces[f].boundaries
                    /\ face.orientation = shell.faces[f].orientation
                    /\ Len(handed) <= Len(face.boundaries)
                    /\ IsSome(face.surface) => Len(handed) = Len(face.boundaries)
                    /\ \A w \in 1..Len(handed) : handed[w] = ExpectedWire(f, w)
        /\ cshell.state = "returned" =>
              /\ MeshedCShell.vertices = shell.vertices
              /\ Len(MeshedCShell.edges) = NumEdges
              /\ Len(MeshedCShell.faces) = NumFaces

\* a returned shell with a meshed face one of whose EdgeRefs is reversed
C9_Witness ==
    /\ phase = "done" /\ cshell.state = "returned"
    /\ \E f \in 1..NumFaces :
          /\ IsSome(MeshedCShell.faces[f].surface)
          /\ \E w \in 1..Len(shell.faces[f].boundaries) :
                \E k \in 1..Len(shell.faces[f].boundaries[w]) :
                   ~shell.faces[f].boundaries[w][k].orientation

(***************************************************************************)
(* PCurve (curve_on_surface.rs).  The 2D curve is the sequence of its      *)
(* points at the parameters 0, 1, .., Len - 1; a 1D hint is <<"None">>,    *)
(* <<"Parameter", t>> or <<"Range", x, y>>, and a 2D hint is <<"None">>,   *)
(* <<"Parameter", uv>> or <<"Range", <<u0, u1>>, <<v0, v1>>>>.             *)
(***************************************************************************)
\* self.curve.subs(t)
CurveSubs(c, t) == c[t + 1]

\* PCurve::subs
PCurveSubs(c, s, t) == SurfaceSubs(s, CurveSubs(c, t)[1], CurveSubs(c, t)[2])

\* PCurve::parameter_range
PCurveParameterRange(c) == <<0, Len(c) - 1>>

Parameters(c) == 0..(Len(c) - 1)

\* the match on hint: the box of a range is folded over the curve's points
\* at the parameters of the range, the grid's presearch division
HintToSurface(c, hint) ==
    IF hint[1] = "Parameter" THEN <<"Parameter", CurveSubs(c, hint[2])>>
    ELSE IF hint[1] = "Range"
    THEN LET us == {CurveSubs(c, t)[1] : t \in hint[2]..hint[3]}
             vs == {CurveSubs(c, t)[2] : t \in hint[2]..hint[3]}
         IN <<"Range", <<SetMin(us), SetMax(us)>>, <<SetMin(vs), SetMax(vs)>>>>
    ELSE <<"None">>

Clamp(x, lo, hi) == IF x < lo THEN lo ELSE IF x > hi THEN hi ELSE x

\* self.surface.search_parameter(point, shint, trials): a search hinted by a
\* box starts from the point of the box nearest the point's base preimage
SurfaceSearchHinted(inv, s, point, shint) ==
    SurfaceSearchParameter(inv, s, point,
        IF shint[1] = "Parameter" THEN Some(shint[2])
        ELSE IF shint[1] = "Range"
             THEN Some(<<Clamp(point[1], shint[2][1], shint[2][2]),
                         Clamp(point[2], shint[3][1], shint[3][2])>>)
             ELSE None)

\* the distance from parameter t to what the hint names
HintDistance(hint, t) ==
    IF hint[1] = "Parameter" THEN Abs(t - hint[2])
    ELSE IF hint[1] = "Range" THEN Abs(t - Clamp(t, hint[2], hint[3]))
    ELSE t

\* self.curve.search_parameter(uv, hint, trials): a parameter of uv, the one
\* nearest the hint, or None when uv is not on the curve
CurveSearchParameter(c, uv, hint) ==
    LET T == {t \in Parameters(c) : CurveSubs(c, t) = uv}
    IN IF T = {} THEN None
       ELSE Some(CHOOSE t \in T : \A o \in T :
                    HintDistance(hint, t) < HintDistance(hint, o)
                       \/ (HintDistance(hint, t) = HintDistance(hint, o) /\ t <= o))

\* a search whose second stage is given no hint
PCurveSearchUnhinted(inv, c, s, point, hint) ==
    Let(HintToSurface(c, hint), LAMBDA shint :
    Let(SurfaceSearchHinted(inv, s, point, shint), LAMBDA found :
        [shint |-> shint, uv |-> found,
         result |-> IF ~IsSome(found) THEN None
                    ELSE CurveSearchParameter(c, Unwrapped(found), <<"None">>)]))

\* PCurve::search_parameter: [shint, uv, result]
PCurveSearchParameter(inv, c, s, point, hint) ==
    Let(HintToSurface(c, hint), LAMBDA shint :
    Let(SurfaceSearchHinted(inv, s, point, shint), LAMBDA found :
        [shint |-> shint, uv |-> found,
         result |-> IF ~IsSome(found) THEN None
                    ELSE CurveSearchParameter(c, Unwrapped(found), hint)]))

Diagonal == << <<0,0>>, <<1,1>>, <<2,2>>, <<3,3>> >>
\* a curve that crosses the seam u = Period
SeamCrossing == << <<6,1>>, <<7,1>>, <<8,1>>, <<9,1>> >>
\* a curve that ends where it starts
ClosedCurve == << <<1,1>>, <<2,1>>, <<2,2>>, <<1,1>> >>
SampleCurves == {Diagonal, SeamCrossing, ClosedCurve}

Hints(c) == {<<"None">>} \cup {<<"Parameter", t>> : t \in Parameters(c)}
              \cup {<<"Range", x, y>> : x \in Parameters(c), y \in Parameters(c)}
CurvePoints(c, s) == {PCurveSubs(c, s, t) : t \in Parameters(c)}
OffCurvePoints == {<<5,5>>, <<9,1>>, <<4,1>>}

InitPCurve ==
    /\ spFail \in SmallSubsets({<<1,1>>, <<7,1>>}, MaxFail)
    /\ spFailHint = {}
    /\ spNear \in BOOLEAN
    /\ cdtReject = {}
    /\ hashSeed = 0
    /\ IdleShell
    /\ cshell = <<>>
    /\ surface \in {Plane, Cylinder}
    /\ polyline = EmptyPolyline /\ calls = 0 /\ last = NoCall
    /\ polygon = <<>> /\ incl = NoInclude
    /\ pcurve \in SampleCurves
    /\ search = NoSearch
    /\ triangulation = NoInsert

\* pcurve.search_parameter(point, hint, trials)
DoSearchParameter ==
    /\ \E point \in CurvePoints(pcurve, surface) \cup OffCurvePoints :
       \E hint \in {h \in Hints(pcurve) : h[1] = "Range" => h[2] <= h[3]} :
       \E r \in {PCurveSearchParameter(Inverter, pcurve, surface, point, hint)} :
          search' = [point |-> point, hint |-> hint, shint |-> r.shint, uv |-> r.uv,
                     result |-> r.result, made |-> TRUE]
    /\ UNCHANGED <<ivars, pvars, svars, cshell, pcurve, triangulation>>

NextPCurve == DoSearchParameter

SpecPCurve == InitPCurve /\ [][NextPCurve]_vars

\* the parameters the composed curve takes the searched point at
Preimages == {t \in Parameters(pcurve) : PCurveSubs(pcurve, surface, t) = search.point}

Square == << <<0,0>>, <<4,0>>, <<4,4>>, <<0,4>> >>
\* its third segment crosses its first
BowTie == << <<0,0>>, <<4,4>>, <<4,0>>, <<0,4>> >>
\* its closing segment crosses its second
LastCrossing == << <<0,2>>, <<2,4>>, <<2,0>>, <<4,2>> >>
FarSquare == << <<6,0>>, <<8,0>>, <<8,2>>, <<6,2>> >>
\* its third segment crosses its first, and so does the segment from the
\* third segment's start to the end of the fourth
Zigzag == << <<0,2>>, <<6,2>>, <<5,0>>, <<4,4>>, <<2,4>>, <<1,0>> >>

InsertLoops == {Square, BowTie, LastCrossing, FarSquare, Zigzag}

InitInsert ==
    /\ spFail = {}
    /\ spFailHint = {}
    /\ spNear \in BOOLEAN
    /\ cdtReject \in SmallSubsets({<<4,4>>, <<2,0>>, <<6,2>>}, MaxFail)
    /\ hashSeed = 0
    /\ IdleShell
    /\ IdleCompressed
    /\ surface = Plane
    /\ polyline = EmptyPolyline
    /\ calls = 0
    /\ last = NoCall
    /\ polygon = <<>>
    /\ incl = NoInclude

\* polyline.add_wire(&surface, wire, &sp) on the boundary of a loop
InsAddWire ==
    /\ calls < MaxWires
    /\ ~triangulation.made
    /\ \E P \in InsertLoops :
         \E r \in {AddWire(polyline, surface, PolygonWire(P))} :
            /\ r.res
            /\ polyline' = r.polyline
            /\ last' = [wire |-> PolygonWire(P), before |-> polyline, res |-> r.res,
                        counter |-> r.counter, log |-> r.log,
                        unreachable |-> r.unreachable, made |-> TRUE]
    /\ calls' = calls + 1
    /\ UNCHANGED <<ivars, cvars, svars, surface, polygon, incl>>

\* let mut triangulation = Cdt::new(); polyline.insert_to(&mut triangulation)
DoInsertTo ==
    /\ ~triangulation.made
    /\ \E r \in {InsertTo(polyline, CdtNew)} :
          triangulation' = [cdt |-> r.cdt, poly2tri |-> r.poly2tri, prev |-> r.prev,
                            panicked |-> r.panicked, log |-> r.log, made |-> TRUE]
    /\ UNCHANGED <<ivars, pvars, svars, cshell, pcurve, search>>

NextInsert == InsAddWire \/ DoInsertTo

SpecInsert == InitInsert /\ [][NextInsert]_vars

\* the pending vertex after step i of the fold
PendingAfter(i) ==
    IF i < Len(triangulation.log) THEN triangulation.log[i + 1].pending
    ELSE triangulation.prev

\* C14: insert_to takes the segments in index order and adds a constraint
\* only on a pair can_add_constraint has just accepted; without a pending
\* vertex a legal segment (a, b) is added and an illegal one makes a
\* pending; with p pending the only attempt on a segment (a', b') is
\* p -> b', p stays pending when it is rejected and is cleared when it
\* succeeds.
C14_PendingProtocol ==
    triangulation.made =>
        \A log \in {triangulation.log} :
            /\ Len(log) <= Len(polyline.indices)
            /\ ~triangulation.panicked => Len(log) = Len(polyline.indices)
            /\ triangulation.cdt.constraints
                  = [k \in 1..Len(SelectSeq(log, LAMBDA e : e.legal)) |->
                        <<SelectSeq(log, LAMBDA e : e.legal)[k].hfrom,
                          SelectSeq(log, LAMBDA e : e.legal)[k].hto>>]
            /\ \A i \in 1..Len(log) :
                  /\ log[i].segment = polyline.indices[i]
                  /\ log[i].to = log[i].segment[2]
                  /\ log[i].hfrom = At(triangulation.poly2tri, log[i].from)
                  /\ log[i].hto = At(triangulation.poly2tri, log[i].to)
                  /\ IF i = 1 THEN log[i].pending = None ELSE TRUE
                  /\ IF ~IsSome(log[i].pending)
                     THEN /\ log[i].from = log[i].segment[1]
                          /\ PendingAfter(i) = (IF log[i].legal THEN None
                                                ELSE Some(log[i].segment[1]))
                     ELSE /\ log[i].from = Unwrapped(log[i].pending)
                          /\ PendingAfter(i) = (IF log[i].legal THEN None
                                                ELSE log[i].pending)

\* an insert_to that kept a vertex pending over a rejected attempt and
\* cleared it on a later one
C14_Witness ==
    /\ triangulation.made /\ ~triangulation.panicked
    /\ \E i \in 1..(Len(triangulation.log) - 1) :
          /\ IsSome(triangulation.log[i].pending) /\ ~triangulation.log[i].legal
          /\ IsSome(triangulation.log[i + 1].pending) /\ triangulation.log[i + 1].legal

\* C15: the handle insert_to uses for polyline index i is the handle that
\* inserting positions[i] returned, also when the triangulation refused
\* another point; a refused point causes no out-of-range lookup and no
\* constraint on another point's handle.
C15_HandlesAligned ==
    triangulation.made =>
        /\ ~triangulation.panicked
        /\ \A i \in 1..Len(triangulation.log) :
              \A e \in {triangulation.log[i]} :
                 /\ CdtPoint(triangulation.cdt, e.hfrom) = At(polyline.positions, e.from)
                 /\ CdtPoint(triangulation.cdt, e.hto) = At(polyline.positions, e.to)

\* segment i of indices closes the loop of its wire
ClosesLoop(i) == polyline.indices[i][2] <= polyline.indices[i][1]

\* the wire loop that position index p belongs to, counted from 0
LoopOf(p) == Cardinality({i \in 1..p : ClosesLoop(i)})

\* C17: every constraint insert_to adds joins two points of one wire loop,
\* and no vertex is pending once the last segment of a wire is processed.
C17_ConstraintsWithinWire ==
    triangulation.made =>
        \A i \in 1..Len(triangulation.log) :
           \A e \in {triangulation.log[i]} :
              /\ e.legal => LoopOf(e.from) = LoopOf(e.to)
              /\ ClosesLoop(i) => ~IsSome(PendingAfter(i))

=============================================================================
